---- MODULE Spec2Model ----
(***************************************************************************)
(* Model of the Easy Apply application-flow engine (AIHawkEasyApplier,     *)
(* src/src/aihawk_easy_applier.py): one job attempt of apply_to_job, from  *)
(* the navigation to the job link to the value or error handed back to     *)
(* the caller.  The browser, the page and the collaborators are the        *)
(* environment: what they answer is chosen nondeterministically from       *)
(* small sets at the step that asks them.                                  *)
(***************************************************************************)
EXTENDS Integers, Sequences, FiniteSets, TLC

VARIABLES
    pc,               \* position of the single thread of control
    url,              \* driver.current_url, abstracted to its class
    resume_path,      \* self.resume_path: TRUE iff a resume file was configured
    attempt,          \* _find_easy_apply_button: local `attempt`
    method,           \* _find_easy_apply_button: index in search_methods (0: none)
    reloads,          \* driver.refresh() calls of the locator call
    scrolls,          \* _scroll_page() calls of the locator call
    evals,            \* strategy evaluations of the locator call
    roundLog,         \* what each strategy tried in the current round found
    easy_apply_button,\* job_apply: local `easy_apply_button` ([by, idx]; by = 0: none)
    guardNavs,        \* check_for_premium_redirect: local `attempts`
    job,              \* the Job fields the engine writes
    gptJob,           \* gpt_answerer.set_job(job) was called
    modal,            \* the Easy Apply modal: "closed" | "open"
    step,             \* number of fill_up calls of the attempt
    fillClicks,       \* clicks made by the last fill_up, in order
    stepInjections,   \* send_keys into file inputs by the last fill_up, in order
    stepGens,         \* artifact generation requests of the last fill_up
    stepHandled,      \* the handler the last fill_up ran for each container
    stepElements,     \* the file inputs each container of the last fill_up held
    stepUploads,      \* what the last fill_up did for each file input it handled
    stepRequests,     \* how each pdf_base64 request of the last fill_up ended
    stepArtifacts,    \* the files the last fill_up generated, in order
    fillErr,          \* the exception the last fill_up caught
    artifactInvalid,  \* a size/extension ValueError was raised in this attempt
    label,            \* _next_or_submit: text of the primary action control
    stepClicks,       \* clicks made by the last _next_or_submit, in order
    followControl,    \* the "follow company" label when _unfollow_company ran
    pageErrors,       \* inline error indicators on the page after the primary click
    indicators,       \* _check_for_errors: `error_elements`
    errTexts,         \* _check_for_errors: `texts`
    submitted,        \* _next_or_submit returned True
    primaryClicks,    \* clicks on the primary action control in the attempt
    discarded,        \* _discard_application was executed
    rollbackClicks,   \* clicks made by _discard_application, in order
    rollbackPage,     \* what _discard_application met: its two controls
    error,            \* kind of the exception in flight or raised
    errSite,          \* where that exception was raised
    outcome,          \* how apply_to_job ended: "none" | "returned" | "raised"
    file_size,        \* upload check: os.path.getsize(file_path_pdf)
    file_extension,   \* upload check: os.path.splitext(file_path_pdf)[1]
    verdict,          \* upload check: "unchecked" | "accepted" | "ArtifactInvalid"
    raw,              \* sanitizer: the text first handed to _sanitize_text
    sanitized_text,   \* sanitizer: the value last returned
    passes,           \* sanitizer: how many times it was applied in a row
    answers_file,     \* answer store: what answers.json holds
    all_data,         \* answer store: what _load_questions_from_json returned
    storeErr,         \* answer store: "None" | "Exception", of the last call
    saved,            \* answer store: the records handed to the save, in order
    wizard,           \* the kinds of the steps processed so far: "" | "q" | "qq" | "qqu" | "off"
    resumes,          \* resume files injected so far in this attempt
    milestones,       \* the statements of job_apply that have completed so far
    guardStart,       \* redirect check alone: driver.current_url at the call
    guardNexts,       \* redirect check alone: the location after each driver.get
    guardResult       \* redirect check alone: how the call ended

\* The locals of a call that has returned stay readable until the caller
\* executes its next statement, which drops them.
LocVars == <<attempt, method, reloads, scrolls, evals, roundLog>>
FillVars ==
    <<fillClicks, stepInjections, stepGens, stepHandled, stepElements,
      stepUploads, stepRequests, stepArtifacts, fillErr>>
NextVars == <<label, stepClicks, followControl, pageErrors, indicators,
              errTexts>>
RollVars == <<discarded, rollbackClicks, rollbackPage>>

\* The upload check, the sanitizer, the answer store and the redirect check
\* run on their own; a job attempt touches none of them.
ArtVars == <<file_size, file_extension, verdict>>
SanVars == <<raw, sanitized_text, passes>>
StoreVars == <<answers_file, all_data, storeErr, saved>>
GuardVars == <<guardStart, guardNexts, guardResult>>
AuxVars == <<ArtVars, SanVars, StoreVars, GuardVars>>

\* What the steps of the wizard were and did, kept for the whole attempt.
MonVars == <<wizard, resumes, milestones>>

\* The browser session and the attempt in progress, without the position.
WorkVars ==
    <<url, resume_path, LocVars, easy_apply_button, guardNavs, job, gptJob,
      modal, step, FillVars, artifactInvalid, NextVars, submitted,
      primaryClicks, RollVars, error, errSite, outcome, MonVars>>

vars == <<pc, url, resume_path, LocVars, easy_apply_button, guardNavs, job,
          gptJob, modal, step, FillVars, artifactInvalid, NextVars, submitted,
          primaryClicks, RollVars, error, errSite, outcome, AuxVars, MonVars>>

(***************************************************************************)
(* Bounds of the model                                                     *)
(***************************************************************************)
MaxCands == 2
MaxSteps == 3
MaxContainers == 2
MaxInputs == 1
MaxErrors == 2

SeqsUpTo(S, n) == UNION {[1..k -> S] : k \in 0..n}

(***************************************************************************)
(* Environment values                                                      *)
(***************************************************************************)
Urls == {"job", "premium"}

\* "linkedin.com/premium" in current_url
IsPremium(u) == u = "premium"

NoButton == [by |-> 0, idx |-> 0]

(***************************************************************************)
(* check_for_premium_redirect (lines 85-102)                               *)
(***************************************************************************)
max_attempts_M == 3 - 1

max_attempts == 3

\* The loop with its test after the body: one driver.get whatever the location
RECURSIVE RedirectLoop_M(_, _, _)
RedirectLoop_M(current_url, attempts, nexts) ==
    IF attempts < max_attempts /\ (attempts = 0 \/ IsPremium(current_url))
    THEN RedirectLoop_M(nexts[attempts + 1], attempts + 1, nexts)
    ELSE [current_url |-> current_url, attempts |-> attempts]

\* The while loop of lines 93-98: nexts[k] is the location the browser is at
\* after the k-th driver.get(job.link).
RECURSIVE RedirectLoop(_, _, _)
RedirectLoop(current_url, attempts, nexts) ==
    IF IsPremium(current_url) /\ attempts < max_attempts
    THEN RedirectLoop(nexts[attempts + 1], attempts + 1, nexts)
    ELSE [current_url |-> current_url, attempts |-> attempts]

\* Line 100: the check raises iff the location is still the interstitial.
RedirectRaises(r) == IsPremium(r.current_url)

(***************************************************************************)
(* _find_easy_apply_button (lines 173-243)                                 *)
(***************************************************************************)
search_methods ==
    << [find_elements |-> TRUE,  matcher |-> "class"],
       [find_elements |-> FALSE, matcher |-> "aria"],
       [find_elements |-> FALSE, matcher |-> "text"] >>

RoundCap_M == 2 + 1

\* while attempt < 2 (line 198)
RoundCap == 2

\* What a strategy's matcher finds: the elements in enumeration order, TRUE
\* iff the element becomes visible and clickable within the waits.
\* find_elements yields any number of them, presence_of_element_located
\* the first one or a timeout.
Found(m) ==
    IF search_methods[m].find_elements
    THEN SeqsUpTo(BOOLEAN, MaxCands)
    ELSE SeqsUpTo(BOOLEAN, 1)

\* The last candidate that becomes visible and clickable
RECURSIVE FirstClickable_M(_, _)
FirstClickable_M(buttons, index) ==
    IF index > Len(buttons) THEN 0
    ELSE LET later == FirstClickable_M(buttons, index + 1) IN
         IF later > 0 THEN later
         ELSE IF buttons[index] THEN index ELSE 0

\* Lines 209-216: the candidates in enumeration order; the first one that
\* becomes visible and clickable is returned, the others are skipped.
RECURSIVE FirstClickable(_, _)
FirstClickable(buttons, index) ==
    IF index > Len(buttons) THEN 0
    ELSE IF buttons[index] THEN index
    ELSE FirstClickable(buttons, index + 1)

TryMethod_M(m, buttons) ==
    IF m < Len(search_methods) THEN 0 ELSE FirstClickable(buttons, 1)

\* Lines 203-231, one strategy: the index of the element returned, 0 when
\* the strategy yields nothing.  Every exception of the waits is caught
\* inside the loop (lines 215, 228, 230).
TryMethod(m, buttons) == FirstClickable(buttons, 1)

RefreshAfter_M(a) == TRUE

\* Line 235: the page is refreshed after the first round only.
RefreshAfter(a) == a = 0

(***************************************************************************)
(* job_apply (lines 116-171): which raising sites lie inside the try block *)
(* of lines 133-164 and therefore reach the handler of lines 165-171.      *)
(***************************************************************************)
InTry(site) == site \notin {"navigate", "guard1"}

Raise_M(kind, site) ==
    /\ error' = kind
    /\ errSite' = site
    /\ pc' = IF kind = "Validation" THEN "fill_up"
             ELSE IF InTry(site) THEN "job_except" ELSE "apply_except"

Raise_Retry(kind, site) ==
    /\ error' = kind
    /\ errSite' = site
    /\ pc' = IF kind = "RedirectLoop" THEN "navigate"
             ELSE IF InTry(site) THEN "job_except" ELSE "apply_except"

Raise(kind, site) ==
    /\ error' = kind
    /\ errSite' = site
    /\ pc' = IF InTry(site) THEN "job_except" ELSE "apply_except"

GuardSites == {"guard1", "guard2", "loc_guard", "loc_guard_end", "guard3"}

\* The first round entered without the check of line 199
GuardNext_NoRoundCheck(site) ==
    CASE site = "guard1" -> "blur"
      [] site = "guard2" -> "loc_scroll"
      [] site = "loc_guard" -> "loc_scroll"
      [] site = "loc_guard_end" -> "loc_refresh"
      [] site = "guard3" -> "describe"

\* The focus clear of line 135 left out
GuardNext_M(site) ==
    CASE site = "guard1" -> "guard2"
      [] site = "guard2" -> "loc_guard"
      [] site = "loc_guard" -> "loc_scroll"
      [] site = "loc_guard_end" -> "loc_refresh"
      [] site = "guard3" -> "describe"

\* The statement after each of the five calls of the redirect check
GuardNext(site) ==
    CASE site = "guard1" -> "blur"
      [] site = "guard2" -> "loc_guard"
      [] site = "loc_guard" -> "loc_scroll"
      [] site = "loc_guard_end" -> "loc_refresh"
      [] site = "guard3" -> "describe"

\* A statement of job_apply has completed.
Mark(m) == milestones' = milestones \cup {m}

DropLoc ==
    /\ attempt' = 0 /\ method' = 0 /\ reloads' = 0 /\ scrolls' = 0
    /\ evals' = 0 /\ roundLog' = <<>>

DropFill ==
    /\ fillClicks' = <<>> /\ stepInjections' = <<>> /\ stepGens' = 0
    /\ stepHandled' = <<>> /\ fillErr' = "None"
    /\ stepElements' = <<>> /\ stepUploads' = <<>> /\ stepArtifacts' = <<>>
    /\ stepRequests' = <<>>

\* The engine before a job attempt (lines 49-55 of __init__).
AtRest ==
    /\ url = "job"
    /\ attempt = 0 /\ method = 0 /\ reloads = 0 /\ scrolls = 0
    /\ evals = 0 /\ roundLog = <<>>
    /\ easy_apply_button = NoButton
    /\ guardNavs = 0
    /\ job = [description |-> FALSE, recruiter_link |-> FALSE,
              pdf_path |-> FALSE, cover_letter_path |-> FALSE]
    /\ gptJob = FALSE
    /\ modal = "closed"
    /\ step = 0
    /\ fillClicks = <<>> /\ stepInjections = <<>> /\ stepGens = 0
    /\ stepHandled = <<>> /\ fillErr = "None"
    /\ stepElements = <<>> /\ stepUploads = <<>> /\ stepArtifacts = <<>>
    /\ stepRequests = <<>>
    /\ artifactInvalid = FALSE
    /\ label = <<>> /\ stepClicks = <<>> /\ indicators = <<>> /\ errTexts = <<>>
    /\ pageErrors = <<>> /\ followControl = "none"
    /\ submitted = FALSE /\ primaryClicks = 0
    /\ discarded = FALSE /\ rollbackClicks = <<>>
    /\ rollbackPage = [dismiss |-> "none", confirm |-> "none"]
    /\ error = "None" /\ errSite = "none" /\ outcome = "none"
    /\ wizard = "" /\ resumes = 0
    /\ milestones = {}

\* No stand-alone run of the upload check is in progress.
AuxIdle ==
    /\ file_size = 0 /\ file_extension = "" /\ verdict = "unchecked"

\* No stand-alone run of the sanitizer is in progress.
SanIdle ==
    /\ raw = <<>> /\ sanitized_text = <<>> /\ passes = 0

\* No stand-alone run of the redirect check is in progress.
GuardIdle ==
    /\ guardStart = "job" /\ guardNexts = <<>>
    /\ guardResult = [current_url |-> "job", attempts |-> 0, raised |-> FALSE]

\* answers.json does not exist and __init__ loaded the empty list (line 54).
StoreIdle ==
    /\ answers_file = [kind |-> "missing", data |-> <<>>]
    /\ all_data = <<>> /\ storeErr = "None" /\ saved = <<>>

Init ==
    /\ pc = "navigate"
    /\ resume_path \in BOOLEAN
    /\ AtRest
    /\ AuxIdle
    /\ SanIdle
    /\ StoreIdle
    /\ GuardIdle

\* Lines 123-130: driver.get(job.link); a WebDriverException is re-raised
\* at line 128, outside the try block of line 133.
Navigate ==
    /\ pc = "navigate"
    /\ \/ /\ Raise("Navigation", "navigate")
          /\ UNCHANGED <<url, milestones>>
       \/ /\ url' \in Urls
          /\ pc' = "guard1"
          /\ Mark("navigated")
          /\ UNCHANGED <<error, errSite>>
    /\ UNCHANGED <<resume_path, LocVars, easy_apply_button, guardNavs, job,
                   gptJob, modal, step, FillVars, artifactInvalid, NextVars,
                   submitted, primaryClicks, RollVars, outcome>>
    /\ UNCHANGED AuxVars
    /\ UNCHANGED <<wizard, resumes>>

\* Lines 85-102, called at lines 131, 137, 142, 199 and 233.  The call at
\* line 142 is the statement after the locator call.
check_for_premium_redirect ==
    /\ pc \in GuardSites
    /\ \E nexts \in [1..max_attempts -> Urls] :
         LET r == RedirectLoop(url, 0, nexts) IN
         /\ url' = r.current_url
         /\ guardNavs' = r.attempts
         /\ IF RedirectRaises(r)
            THEN /\ Raise("RedirectLoop", pc)
                 /\ UNCHANGED <<LocVars, milestones>>
            ELSE /\ pc' = GuardNext(pc)
                 /\ IF pc \in {"guard1", "guard2", "guard3"}
                    THEN Mark(pc) ELSE UNCHANGED milestones
                 /\ IF pc = "guard3" THEN DropLoc
                                     ELSE UNCHANGED LocVars
                 /\ UNCHANGED <<error, errSite>>
    /\ UNCHANGED <<resume_path, easy_apply_button, job, gptJob, modal, step,
                   FillVars, artifactInvalid, NextVars, submitted,
                   primaryClicks, RollVars, outcome>>
    /\ UNCHANGED AuxVars
    /\ UNCHANGED <<wizard, resumes>>

\* The diversion the checks of lines 137, 142, 199 and 233 look for: the
\* site moves the session to the interstitial on its own, between two
\* statements of the engine (lines 93-94).
premium_redirect ==
    /\ pc \in GuardSites \ {"guard1"}
    /\ url = "job"
    /\ url' = "premium"
    /\ UNCHANGED <<pc, resume_path, LocVars, easy_apply_button, guardNavs, job,
                   gptJob, modal, step, FillVars, artifactInvalid, NextVars,
                   submitted, primaryClicks, RollVars, error, errSite,
                   outcome>>
    /\ UNCHANGED AuxVars
    /\ UNCHANGED MonVars

\* Line 135: driver.execute_script("document.activeElement.blur();")
Blur ==
    /\ pc = "blur"
    /\ \/ /\ Raise("Script", "blur")
          /\ UNCHANGED <<guardNavs, milestones>>
       \/ /\ pc' = "guard2"
          /\ Mark("blur")
          /\ guardNavs' = 0
          /\ UNCHANGED <<error, errSite>>
    /\ UNCHANGED <<url, resume_path, LocVars, easy_apply_button, job, gptJob,
                   modal, step, FillVars, artifactInvalid, NextVars,
                   submitted, primaryClicks, RollVars, outcome>>
    /\ UNCHANGED AuxVars
    /\ UNCHANGED <<wizard, resumes>>

\* Lines 200 and 245-253: the scroll pass, down then up, at the start of
\* every round; then the for loop starts at the first strategy.
scroll_page ==
    /\ pc = "loc_scroll"
    /\ scrolls' = scrolls + 1
    /\ method' = 1
    /\ roundLog' = <<>>
    /\ guardNavs' = 0
    /\ pc' = "loc_try"
    /\ UNCHANGED <<url, resume_path, attempt, reloads, evals,
                   easy_apply_button, job, gptJob, modal, step, FillVars,
                   artifactInvalid, NextVars, submitted, primaryClicks,
                   RollVars, error, errSite, outcome>>
    /\ UNCHANGED AuxVars
    /\ UNCHANGED MonVars

\* Lines 202-231: one iteration of `for method in search_methods`.
try_method ==
    /\ pc = "loc_try"
    /\ evals' = evals + 1
    /\ \E buttons \in Found(method) :
         LET index == TryMethod(method, buttons) IN
         /\ roundLog' = Append(roundLog, buttons)
         /\ IF index > 0
            THEN /\ easy_apply_button' = [by |-> method, idx |-> index]
                 /\ method' = method
                 /\ pc' = "guard3"
                 /\ Mark("found")
            ELSE /\ easy_apply_button' = easy_apply_button
                 /\ UNCHANGED milestones
                 /\ IF method < Len(search_methods)
                    THEN method' = method + 1 /\ pc' = "loc_try"
                    ELSE method' = 0 /\ pc' = "loc_guard_end"
    /\ UNCHANGED <<url, resume_path, attempt, reloads, scrolls, guardNavs,
                   job, gptJob, modal, step, FillVars, artifactInvalid,
                   NextVars, submitted, primaryClicks, RollVars, error,
                   errSite, outcome>>
    /\ UNCHANGED AuxVars
    /\ UNCHANGED <<wizard, resumes>>

\* Lines 235-243: refresh after the first round, count the round, and either
\* start the next round or raise "No clickable 'Easy Apply' button found".
round_end ==
    /\ pc = "loc_refresh"
    /\ IF RefreshAfter(attempt)
       THEN /\ reloads' = reloads + 1
            /\ url' \in Urls
       ELSE UNCHANGED <<reloads, url>>
    /\ attempt' = attempt + 1
    /\ guardNavs' = 0
    /\ IF attempt + 1 < RoundCap
       THEN /\ pc' = "loc_guard"
            /\ UNCHANGED <<error, errSite>>
       ELSE Raise("NotFound", "locator")
    /\ UNCHANGED <<resume_path, method, scrolls, evals, roundLog,
                   easy_apply_button, job, gptJob, modal, step, FillVars,
                   artifactInvalid, NextVars, submitted, primaryClicks,
                   RollVars, outcome>>
    /\ UNCHANGED AuxVars
    /\ UNCHANGED MonVars

\* Lines 144-150: description (may raise, lines 278-285) and recruiter link
\* ("" when the hiring-team section is absent, lines 304-308).
get_job_description ==
    /\ pc = "describe"
    /\ \/ /\ Raise("Description", "describe")
          /\ UNCHANGED <<job, guardNavs, milestones>>
       \/ /\ job' = [job EXCEPT !.description = TRUE, !.recruiter_link = TRUE]
          /\ guardNavs' = 0
          /\ pc' = "click_trigger"
          /\ Mark("described")
          /\ UNCHANGED <<error, errSite>>
    /\ UNCHANGED <<url, resume_path, LocVars, easy_apply_button, gptJob,
                   modal, step, FillVars, artifactInvalid, NextVars,
                   submitted, primaryClicks, RollVars, outcome>>
    /\ UNCHANGED AuxVars
    /\ UNCHANGED <<wizard, resumes>>

\* Lines 153-155: ActionChains(...).move_to_element(button).click().perform(),
\* the last use of easy_apply_button.
click_trigger ==
    /\ pc = "click_trigger"
    /\ \/ /\ Raise("TriggerClick", "click_trigger")
          /\ UNCHANGED <<modal, easy_apply_button, milestones>>
       \/ /\ modal' = "open"
          /\ easy_apply_button' = NoButton
          /\ pc' = "set_job"
          /\ Mark("clicked")
          /\ UNCHANGED <<error, errSite>>
    /\ UNCHANGED <<url, resume_path, LocVars, guardNavs, job, gptJob, step,
                   FillVars, artifactInvalid, NextVars, submitted,
                   primaryClicks, RollVars, outcome>>
    /\ UNCHANGED AuxVars
    /\ UNCHANGED <<wizard, resumes>>

\* Line 158: self.gpt_answerer.set_job(job)
set_job ==
    /\ pc = "set_job"
    /\ \/ /\ Raise("SetJob", "set_job")
          /\ UNCHANGED <<gptJob, milestones>>
       \/ /\ gptJob' = TRUE
          /\ pc' = "fill_up"
          /\ Mark("set_job")
          /\ UNCHANGED <<error, errSite>>
    /\ UNCHANGED <<url, resume_path, LocVars, easy_apply_button, guardNavs,
                   job, modal, step, FillVars, artifactInvalid, NextVars,
                   submitted, primaryClicks, RollVars, outcome>>
    /\ UNCHANGED AuxVars
    /\ UNCHANGED <<wizard, resumes>>

(***************************************************************************)
(* Upload handling (lines 351-518)                                         *)
(***************************************************************************)
\* max_file_size = 2 * 1024 * 1024 (lines 428, 505)
max_file_size == 2 * 1024 * 1024

allowed_extensions == {".pdf", ".doc", ".docx"}

\* file_extension.lower() on the extensions the model uses
ExtLower(e) ==
    CASE e = ".PDF" -> ".pdf"
      [] e = ".Pdf" -> ".pdf"
      [] e = ".DOC" -> ".doc"
      [] e = ".DOCX" -> ".docx"
      [] OTHER -> e

\* os.path.splitext of "CV_<timestamp>.pdf" and "Cover_Letter_<timestamp>.pdf"
\* (lines 397, 456): both generated paths end in ".pdf".
GeneratedExt == ".pdf"

\* The size check with the limit itself rejected
ArtifactInvalid_M(size, ext) ==
    \/ size >= max_file_size
    \/ ExtLower(ext) \notin allowed_extensions

\* Lines 427-438 and 504-513: the ValueError checks before the upload.
ArtifactInvalid(size, ext) ==
    \/ size > max_file_size
    \/ ExtLower(ext) \notin allowed_extensions

\* Sizes the generated file may have
Sizes == {max_file_size, max_file_size + 1}

\* What gpt_answerer.resume_or_cover answers for a file input's label:
\* 'resume' in output, 'cover' in output, or neither.
Purposes == {"resume", "cover", "other"}

\* The working state of one fill_up call.
FillState ==
    [inj |-> <<>>, gens |-> 0, clicks |-> <<>>, handled |-> <<>>,
     uploads |-> <<>>, requests |-> <<>>, artifacts |-> <<>>, pdf |-> FALSE,
     cover |-> FALSE,
     err |-> "None"]

\* Lines 399-407 and 449-501: the generator answered and the file was
\* written; size is what os.path.getsize will return for it.
Made(st, k, kind, size) ==
    [st EXCEPT !.gens = @ + 1,
               !.artifacts = Append(@, [input |-> k, kind |-> kind,
                                        size |-> size, ext |-> GeneratedExt])]

\* Lines 441-442 and 515-516: send_keys of the file written last, then its
\* path on the Job.
Uploaded(st, k, kind) ==
    [st EXCEPT !.inj = Append(@, [input |-> k, src |-> kind,
                                  art |-> Len(st.artifacts)]),
               !.pdf = IF kind = "resume" THEN TRUE ELSE @,
               !.cover = IF kind = "cover" THEN TRUE ELSE @]

\* How one iteration of the loop of lines 394-424 may end: the file is
\* written ("ok"); pdf_base64 raises HTTPStatusError with status 429 and a
\* retry-after header that is absent, a number of seconds, or an HTTP date;
\* HTTPStatusError with another status, its text with or without
\* 'RateLimitError'; another exception with or without 'RateLimitError' in
\* its text; open(file_path_pdf, "xb") or the write raises.
GenOutcomes ==
    {"ok", "429", "429_seconds", "429_date", "500", "500_rate_text",
     "rate_text", "other", "write"}

\* Line 408: the exception is an httpx.HTTPStatusError
IsHTTPStatusError(o) ==
    o \in {"429", "429_seconds", "429_date", "500", "500_rate_text"}

\* Line 410: e.response.status_code
status_code(o) == IF o \in {"429", "429_seconds", "429_date"} THEN 429 ELSE 500

\* Line 411: e.response.headers.get('retry-after') or "20"
retry_after(o) ==
    CASE o = "429_seconds" -> "120"
      [] o = "429_date" -> "Wed, 21 Oct 2015 07:28:00 GMT"
      [] OTHER -> "20"

\* Line 412: int(retry_after) raises ValueError unless the text is an integer
IntParses(text) == text \in {"20", "120"}

\* Line 421: "RateLimitError" in str(e)
HasRateLimitText(o) == o \in {"500_rate_text", "rate_text"}

\* Bound on the rate-limited requests of one call
MaxRetries == 1

\* Every HTTPStatusError retried
Retries_M(o) ==
    IF IsHTTPStatusError(o) THEN TRUE ELSE HasRateLimitText(o)

\* Lines 408-424: TRUE iff the handler ends without raising, so that
\* `while True` requests the resume again.  An HTTPStatusError is taken by
\* the first handler whatever its text; a ValueError of line 412 leaves the
\* function.
Retries(o) ==
    IF IsHTTPStatusError(o)
    THEN status_code(o) = 429 /\ IntParses(retry_after(o))
    ELSE HasRateLimitText(o)

\* Line 400: one more pdf_base64 request for the k-th input, ended as o
Requested(st, k, o) ==
    [st EXCEPT !.requests = Append(@, [input |-> k, outcome |-> o])]

\* Lines 394-424: the requests of one _create_and_upload_resume call after
\* n rate-limited ones, up to the written file or the raised error.
RECURSIVE GenerateResume(_, _, _)
GenerateResume(st, k, n) ==
    UNION { LET rq == Requested(st, k, o) IN
            IF o = "ok"
            THEN {Made(rq, k, "resume", size) : size \in Sizes}
            ELSE IF Retries(o)
                 THEN IF n < MaxRetries
                      THEN GenerateResume([rq EXCEPT !.gens = @ + 1], k, n + 1)
                      ELSE {}
                 ELSE {[rq EXCEPT !.gens = @ + 1, !.err = "Generator"]}
            : o \in GenOutcomes }

\* Lines 394-424 (resume) and 451-501 (cover letter, no retry): the states
\* after the artifact was written or the generation raised.
Generate(st, k, kind) ==
    IF kind = "resume"
    THEN GenerateResume(st, k, 0)
    ELSE {[st EXCEPT !.gens = @ + 1, !.err = "Generator"]}
         \cup {Made(st, k, kind, size) : size \in Sizes}

\* The upload and the path on the Job before the two checks
CreateAndUpload_M(st, k, kind) ==
    {[st EXCEPT !.gens = @ + 1, !.err = "Generator"]}
    \cup
    { LET sent == Uploaded(Made(st, k, kind, size), k, kind) IN
      IF ArtifactInvalid(size, GeneratedExt)
      THEN [sent EXCEPT !.err = "ArtifactInvalid"]
      ELSE sent
      : size \in Sizes }

\* Lines 385-444 (resume) and 446-518 (cover letter): request the artifact,
\* check it, inject its path and record it on the Job.  A generator error
\* other than rate limiting propagates (lines 417, 424).
CreateAndUpload(st, k, kind) ==
    { IF made.err # "None"
      THEN made
      ELSE LET a == made.artifacts[Len(made.artifacts)] IN
           IF ArtifactInvalid(a.size, a.ext)
           THEN [made EXCEPT !.err = "ArtifactInvalid"]
           ELSE Uploaded(made, k, kind)
      : made \in Generate(st, k, kind) }

\* The branch taken for the k-th file input, kept with its classification
Took(st, purpose, k, branch) ==
    [st EXCEPT !.uploads =
                 Append(@, [input |-> k, purpose |-> purpose, took |-> branch])]

\* The configured resume file used for a cover-letter input as well
HandleInput_M(st, purpose, k, rp) ==
    IF purpose \in {"resume", "cover"}
    THEN IF rp
         THEN {[Took(st, purpose, k, "path")
                  EXCEPT !.inj = Append(@, [input |-> k, src |-> "path",
                                            art |-> 0])]}
         ELSE CreateAndUpload(Took(st, purpose, k, "create_" \o purpose),
                              k, purpose)
    ELSE {Took(st, purpose, k, "none")}

\* Lines 365-382: one file input.
HandleInput(st, purpose, k, rp) ==
    IF purpose = "resume"
    THEN IF rp
         THEN {[Took(st, purpose, k, "path")
                  EXCEPT !.inj = Append(@, [input |-> k, src |-> "path",
                                            art |-> 0])]}
         ELSE CreateAndUpload(Took(st, purpose, k, "create_resume"),
                              k, "resume")
    ELSE IF purpose = "cover"
         THEN CreateAndUpload(Took(st, purpose, k, "create_cover"), k, "cover")
         ELSE {Took(st, purpose, k, "none")}

\* Lines 364-365: `for input_file in file_upload_elements`; an exception
\* ends the loop.
RECURSIVE UploadInputs(_, _, _, _)
UploadInputs(S, inputs, k, rp) ==
    IF k > Len(inputs) THEN S
    ELSE UploadInputs(
           UNION { IF st.err # "None" THEN {st}
                   ELSE HandleInput(st, inputs[k], k, rp) : st \in S },
           inputs, k + 1, rp)

\* Lines 351-383: the optional 'Show more resumes' click, then every file
\* input of the page (driver.find_elements, not the container's).
handle_upload_fields(st, inputs, showMore, rp) ==
    UploadInputs(
      {[st EXCEPT !.clicks = IF showMore THEN Append(@, "show_more") ELSE @]},
      inputs, 1, rp)

\* The check answering for every container that it holds no file input
is_upload_field_M(element) == FALSE

\* Lines 346-349: bool() of the list of the container's inputs of type file;
\* element is the length of that list.
is_upload_field(element) == element > 0

\* Lines 337-344: upload handling or _fill_additional_questions, whose
\* _process_form_section is `pass` (lines 520-538).
process_form_element(st, element, inputs, showMore, rp) ==
    IF is_upload_field(element)
    THEN handle_upload_fields([st EXCEPT !.handled = Append(@, "upload")],
                              inputs, showMore, rp)
    ELSE {[st EXCEPT !.handled = Append(@, "questions")]}

\* Lines 332-333: `for element in pb4_elements`.
RECURSIVE FormElements(_, _, _, _, _, _)
FormElements(S, elements, i, inputs, showMore, rp) ==
    IF i > Len(elements) THEN S
    ELSE FormElements(
           UNION { IF st.err # "None" THEN {st}
                   ELSE process_form_element(st, elements[i], inputs,
                                             showMore, rp) : st \in S },
           elements, i + 1, inputs, showMore, rp)

\* Lines 326-335: the body of fill_up runs inside `try ... except Exception`,
\* which logs the exception and returns: TRUE iff fill_up lets it out.
FillUpPropagates(err) == FALSE

\* The kind of a step as the page shows it: containers without a file input
\* only, or one container with a file input whose label is classified
\* 'resume' (lines 346-349, 366-367).
StepKind(found, elements, inputs) ==
    IF found /\ elements # <<>> /\ \A i \in 1..Len(elements) : elements[i] = 0
    THEN "questions"
    ELSE IF found /\ elements = <<1>> /\ inputs = <<"resume">>
         THEN "upload"
         ELSE "other"

\* The steps so far: question steps, then one upload step; "off" otherwise.
WizardNext(w, kind) ==
    CASE w = "" /\ kind = "questions" -> "q"
      [] w = "q" /\ kind = "questions" -> "qq"
      [] w = "qq" /\ kind = "upload" -> "qqu"
      [] OTHER -> "off"

\* The send_keys calls of lines 372 and 443 in one fill_up call
ResumeInjections(inj) ==
    Len(SelectSeq(inj, LAMBDA x : x.src \in {"path", "resume"}))

\* Lines 321-335: one wizard step.  elements[i] is the number of file inputs
\* the i-th pb4 container holds; inputs are the file inputs of the page and
\* showMore the presence of the 'Show more resumes' button, which are read
\* only when some container holds a file input.
fill_up ==
    /\ pc = "fill_up"
    /\ step < MaxSteps
    /\ step' = step + 1
    /\ Mark("step")
    /\ \E found \in BOOLEAN, elements \in SeqsUpTo(0..MaxInputs, MaxContainers),
          inputs \in SeqsUpTo(Purposes, MaxInputs), showMore \in BOOLEAN :
         /\ IF \E i \in 1..Len(elements) : elements[i] > 0
            THEN \A i \in 1..Len(elements) : elements[i] <= Len(inputs)
            ELSE inputs = <<>> /\ ~showMore
         /\ ~found => elements = <<>>
         /\ \E st \in IF found
                      THEN FormElements({FillState}, elements, 1, inputs,
                                        showMore, resume_path)
                      ELSE {[FillState EXCEPT !.err = "Timeout"]} :
              /\ fillClicks' = st.clicks
              /\ stepInjections' = st.inj
              /\ stepGens' = st.gens
              /\ stepHandled' = st.handled
              /\ stepUploads' = st.uploads
              /\ stepElements' = elements
              /\ stepArtifacts' = st.artifacts
              /\ stepRequests' = st.requests
              /\ fillErr' = st.err
              /\ wizard' = WizardNext(wizard, StepKind(found, elements, inputs))
              /\ resumes' = IF wizard' = "off" THEN 0
                            ELSE resumes + ResumeInjections(st.inj)
              /\ artifactInvalid' = (artifactInvalid \/ st.err = "ArtifactInvalid")
              /\ job' = [job EXCEPT !.pdf_path = @ \/ st.pdf,
                                    !.cover_letter_path = @ \/ st.cover]
              /\ IF st.err # "None" /\ FillUpPropagates(st.err)
                 THEN Raise(st.err, "fill_up")
                 ELSE /\ pc' = "next_or_submit"
                      /\ UNCHANGED <<error, errSite>>
    /\ label' = <<>> /\ stepClicks' = <<>> /\ pageErrors' = <<>>
    /\ followControl' = "none"
    /\ indicators' = <<>> /\ errTexts' = <<>>
    /\ UNCHANGED <<url, resume_path, LocVars, easy_apply_button, guardNavs,
                   gptJob, modal, submitted, primaryClicks, RollVars, outcome>>
    /\ UNCHANGED AuxVars

(***************************************************************************)
(* _next_or_submit (lines 540-560) and _fill_application_form (310-319)    *)
(***************************************************************************)
\* A label is a sequence of words; str.lower() maps each word.
LowerWord(w) ==
    CASE w = "Submit" -> "submit"
      [] w = "Enviar" -> "enviar"
      [] w = "Next" -> "next"
      [] w = "Review" -> "review"
      [] OTHER -> w

Lower(text) == [i \in 1..Len(text) |-> LowerWord(text[i])]

\* `phrase in text`
Contains(text, phrase) ==
    \E i \in 0..(Len(text) - Len(phrase)) :
        \A j \in 1..Len(phrase) : text[i + j] = phrase[j]

\* Texts the primary action control may carry
Labels ==
    { <<"Next">>, <<"Review">>, <<"Submit">>, <<"application", "Submit">>,
      <<"Submit", "application">>, <<"Enviar", "solicitud">> }

\* The label compared as it is written, without .lower()
IsSubmitLabel_NoLower(text) ==
    \/ Contains(text, <<"submit", "application">>)
    \/ Contains(text, <<"enviar", "solicitud">>)

IsSubmitLabel_M(text) ==
    Contains(Lower(text), <<"enviar", "solicitud">>)

\* Line 549
IsSubmitLabel(text) ==
    LET button_text == Lower(text) IN
    \/ Contains(button_text, <<"submit", "application">>)
    \/ Contains(button_text, <<"enviar", "solicitud">>)

\* Texts an inline error indicator may carry
Texts == {"required", "invalid"}

RECURSIVE CollectTexts_M(_, _)
CollectTexts_M(error_elements, i) ==
    IF i > Len(error_elements) THEN <<>>
    ELSE CollectTexts_M(error_elements, i + 1) \o <<error_elements[i].text>>

\* Line 585: texts = [e.text for e in error_elements]
RECURSIVE CollectTexts(_, _)
CollectTexts(error_elements, i) ==
    IF i > Len(error_elements) THEN <<>>
    ELSE <<error_elements[i].text>> \o CollectTexts(error_elements, i + 1)

\* The failing click of line 572 let through
UnfollowRaises_M(follow) == follow = "fails"

\* Lines 567-574: find_element (absent control) and click (failing click) are
\* inside `try`, and `except Exception` only logs: nothing is raised.
UnfollowRaises(follow) == FALSE

\* Lines 562-574: the clicks _unfollow_company makes; a missing control or a
\* failing click is swallowed by its `except Exception`.
unfollow_company(follow) ==
    IF follow = "ok" THEN <<"follow">> ELSE <<>>

\* The scan on the submit branch as well
Scanned_M(submit, page_errors) == page_errors

\* Line 581 as reached from _next_or_submit: the error_elements the scan
\* finds.  Only the next branch calls _check_for_errors (line 559); the
\* submit branch returns at line 555 and finds nothing.
Scanned(submit, page_errors) == IF submit THEN <<>> ELSE page_errors

\* Lines 582-586: the scan raises iff an indicator is present.
ScanRaises(error_elements) == Len(error_elements) > 0

FormLoopNext_M(done) == "job_return"

\* Lines 314-319: `while True`, left by `break` when _next_or_submit
\* returned True.
FormLoopNext(done) == IF done THEN "job_return" ELSE "fill_up"

next_or_submit ==
    /\ pc = "next_or_submit"
    /\ DropFill
    /\ \/ \* line 547: find_element raises NoSuchElementException
          /\ Raise("NoPrimary", "next_or_submit")
          /\ label' = <<>> /\ stepClicks' = <<>> /\ pageErrors' = <<>>
          /\ followControl' = "none"
          /\ indicators' = <<>> /\ errTexts' = <<>>
          /\ UNCHANGED <<primaryClicks, submitted, modal>>
       \/ \E text \in Labels, clickOk \in BOOLEAN,
             follow \in {"absent", "ok", "fails"} :
            LET submit == IsSubmitLabel(text)
                \* lines 550-551 and 562-574
                before == IF submit THEN unfollow_company(follow) ELSE <<>>
            IN
            /\ label' = text
            /\ submit \/ follow = "absent"
            /\ followControl' = IF submit THEN follow ELSE "none"
            /\ IF submit /\ UnfollowRaises(follow)
               THEN \* not reached: line 573 catches every Exception
                    /\ stepClicks' = before
                    /\ Raise("Unfollow", "next_or_submit")
                    /\ pageErrors' = <<>>
                    /\ indicators' = <<>> /\ errTexts' = <<>>
                    /\ UNCHANGED <<primaryClicks, submitted, modal>>
               ELSE IF clickOk
               THEN \* lines 553-555 and 557-560
                    \E page_errors \in SeqsUpTo([text : Texts], MaxErrors) :
                      LET error_elements == Scanned(submit, page_errors) IN
                      /\ stepClicks' = before \o <<"primary">>
                      /\ primaryClicks' = primaryClicks + 1
                      /\ pageErrors' = page_errors
                      /\ indicators' = error_elements
                      /\ IF ScanRaises(error_elements)
                         THEN /\ errTexts' = CollectTexts(error_elements, 1)
                              /\ Raise("Validation", "next_or_submit")
                              /\ UNCHANGED <<submitted, modal>>
                         ELSE /\ errTexts' = <<>>
                              /\ submitted' = (submitted \/ submit)
                              /\ modal' = IF submit THEN "closed" ELSE modal
                              /\ pc' = FormLoopNext(submit)
                              /\ UNCHANGED <<error, errSite>>
               ELSE \* next_button.click() raises (lines 553, 557)
                    /\ stepClicks' = before
                    /\ Raise("PrimaryClick", "next_or_submit")
                    /\ pageErrors' = <<>>
                    /\ indicators' = <<>> /\ errTexts' = <<>>
                    /\ UNCHANGED <<primaryClicks, submitted, modal>>
    /\ UNCHANGED <<url, resume_path, LocVars, easy_apply_button, guardNavs,
                   job, gptJob, step, artifactInvalid, RollVars, outcome>>
    /\ UNCHANGED AuxVars
    /\ UNCHANGED MonVars

(***************************************************************************)
(* Rollback and the two exception handlers                                 *)
(***************************************************************************)
\* The confirm control clicked whatever became of the dismiss control
discard_clicks_M(dismiss, confirm) ==
    IF confirm = "ok"
    THEN IF dismiss = "ok" THEN <<"dismiss", "confirm">> ELSE <<"confirm">>
    ELSE IF dismiss = "ok" THEN <<"dismiss">> ELSE <<>>

\* Lines 588-603: the clicks of _discard_application; every failure inside
\* is swallowed by its `except Exception`.
discard_clicks(dismiss, confirm) ==
    IF dismiss # "ok" THEN <<>>
    ELSE IF confirm = "ok" THEN <<"dismiss", "confirm">> ELSE <<"dismiss">>

\* Lines 165-171: the handler of job_apply: discard, then raise.
job_apply_except ==
    /\ pc = "job_except"
    /\ \E dismiss \in {"absent", "fails", "ok"},
          confirm \in {"absent", "fails", "ok"} :
         /\ rollbackClicks' = discard_clicks(dismiss, confirm)
         /\ rollbackPage' = [dismiss |-> dismiss, confirm |-> confirm]
         /\ modal' = IF dismiss = "ok" /\ confirm # "fails"
                     THEN "closed" ELSE modal
    /\ discarded' = TRUE
    /\ pc' = "apply_except"
    /\ UNCHANGED <<url, resume_path, LocVars, easy_apply_button, guardNavs,
                   job, gptJob, step, FillVars, artifactInvalid, NextVars,
                   submitted, primaryClicks, error, errSite, outcome>>
    /\ UNCHANGED AuxVars
    /\ UNCHANGED MonVars

\* Lines 112-114: apply_to_job logs and re-raises.
apply_to_job_except ==
    /\ pc = "apply_except"
    /\ outcome' = "raised"
    /\ pc' = "done"
    /\ UNCHANGED <<url, resume_path, LocVars, easy_apply_button, guardNavs,
                   job, gptJob, modal, step, FillVars, artifactInvalid,
                   NextVars, submitted, primaryClicks, RollVars, error,
                   errSite>>
    /\ UNCHANGED AuxVars
    /\ UNCHANGED MonVars

\* Lines 163 and 110-111: job_apply returns, apply_to_job returns None.
apply_to_job_return ==
    /\ pc = "job_return"
    /\ outcome' = "returned"
    /\ pc' = "done"
    /\ UNCHANGED <<url, resume_path, LocVars, easy_apply_button, guardNavs,
                   job, gptJob, modal, step, FillVars, artifactInvalid,
                   NextVars, submitted, primaryClicks, RollVars, error,
                   errSite>>
    /\ UNCHANGED AuxVars
    /\ UNCHANGED MonVars

Next ==
    \/ Navigate
    \/ check_for_premium_redirect
    \/ premium_redirect
    \/ Blur
    \/ scroll_page
    \/ try_method
    \/ round_end
    \/ get_job_description
    \/ click_trigger
    \/ set_job
    \/ fill_up
    \/ next_or_submit
    \/ job_apply_except
    \/ apply_to_job_except
    \/ apply_to_job_return

Spec == Init /\ [][Next]_vars

(***************************************************************************)
(* The loop of _fill_application_form (lines 314-319) past the steps the   *)
(* model counts: a wizard that goes on showing steps.                      *)
(***************************************************************************)
\* Lines 315 and 326-335: a further fill_up on a step without form content,
\* whose timeout the handler swallows; the step is not counted.
uncounted_fill_up ==
    /\ pc = "fill_up"
    /\ step = MaxSteps
    /\ pc' = "uncounted_next"
    /\ UNCHANGED <<WorkVars, AuxVars>>

\* Lines 317 and 556-560: the primary control reads 'Next', the click works
\* and no error indicator shows: _next_or_submit returns False and the loop
\* of line 314 goes round.
uncounted_next ==
    /\ pc = "uncounted_next"
    /\ pc' = FormLoopNext(FALSE)
    /\ UNCHANGED <<WorkVars, AuxVars>>

LiveNext == Next \/ uncounted_fill_up \/ uncounted_next

\* Every statement that can run does run: the thread of control is never
\* suspended for ever, and the page and the collaborators always answer.
LiveSpec == Init /\ [][LiveNext]_vars /\ WF_vars(LiveNext)

TypeOK ==
    /\ url \in Urls
    /\ attempt \in 0..RoundCap
    /\ outcome \in {"none", "returned", "raised"}
    /\ pageErrors \in SeqsUpTo([text : Texts], MaxErrors)
    /\ followControl \in {"none", "absent", "ok", "fails"}
    /\ indicators \in {<<>>, pageErrors}

(***************************************************************************)
(* Properties                                                              *)
(***************************************************************************)
Done == pc = "done"

\* C1: every attempt that ends by raising to the caller, whichever step
\* raised, ran _discard_application before the error reached the caller.
C1_RollbackBeforeRaise == outcome = "raised" => discarded

\* C2: every attempt ends in exactly one of Applied (the wizard reached
\* Submitted), Skipped (no apply trigger was found) or Failed (an error was
\* raised and rollback was attempted).
C2_Applied == outcome = "returned" /\ submitted
C2_Skipped == outcome = "raised" /\ error = "NotFound" /\ discarded
C2_Failed == outcome = "raised" /\ error # "NotFound" /\ discarded
C2_ThreeOutcomes ==
    Done => \/ C2_Applied /\ ~C2_Skipped /\ ~C2_Failed
            \/ ~C2_Applied /\ C2_Skipped /\ ~C2_Failed
            \/ ~C2_Applied /\ ~C2_Skipped /\ C2_Failed

\* C3: once a generated artifact has failed the size or extension check,
\* the attempt never reaches Submitted and never returns normally.
C3_ArtifactInvalidTerminal ==
    artifactInvalid => ~submitted /\ outcome # "returned"

\* C4: apply_to_job returns normally only after the primary control with a
\* submit-intent label was clicked, and once the flow is Submitted no step
\* is processed and no control is clicked any more.
C4_SubmittedTerminal ==
    /\ [](outcome = "returned" =>
            /\ submitted
            /\ Len(stepClicks) > 0 /\ stepClicks[Len(stepClicks)] = "primary"
            /\ \/ Contains(Lower(label), <<"submit", "application">>)
               \/ Contains(Lower(label), <<"enviar", "solicitud">>))
    /\ [][submitted =>
            /\ submitted'
            /\ step' = step /\ primaryClicks' = primaryClicks
            /\ stepClicks' = stepClicks /\ fillClicks' = fillClicks
            /\ stepInjections' = stepInjections
            /\ rollbackClicks' = rollbackClicks /\ ~discarded']_vars
C4_Witness == outcome = "returned" /\ submitted /\ step = 2

\* C5: after a next click the loop raises iff at least one error indicator
\* is present; the collected texts are the indicators' texts in the order
\* found, the attempt then ends as Failed with rollback; with no indicator
\* the loop goes back to fill_up.
C5_ValidationFailed ==
    /\ [][(pc = "next_or_submit" /\ primaryClicks' = primaryClicks + 1
           /\ ~submitted') =>
            IF Len(indicators') >= 1
            THEN /\ error' = "Validation" /\ pc' = "job_except"
                 /\ Len(errTexts') = Len(indicators')
                 /\ \A i \in 1..Len(indicators') :
                        errTexts'[i] = indicators'[i].text
            ELSE pc' = "fill_up" /\ error' = "None" /\ errTexts' = <<>>]_vars
    /\ [](error = "Validation" =>
            /\ Len(indicators) >= 1
            /\ pc \in {"job_except", "apply_except", "done"}
            /\ (Done => outcome = "raised" /\ discarded))
C5_Witness ==
    /\ Done /\ error = "Validation" /\ outcome = "raised" /\ discarded
    /\ errTexts = <<"required", "invalid">>

\* C6: a step whose primary action label contains "submit application"
\* transitions to Submitted and performs at most one click while it is
\* handled (stated for the steps whose clicks do not fail).
C6_SubmitAtMostOneClick ==
    (Contains(Lower(label), <<"submit", "application">>)
     /\ error # "PrimaryClick") =>
        submitted /\ Len(stepClicks) <= 1

\* C6 as amended: such a step is Submitted once its primary click succeeded;
\* _next_or_submit clicks the primary control at most once, after at most
\* one click on the follow-company control, and nothing else.
C6_SubmitClicks ==
    Contains(Lower(label), <<"submit", "application">>) =>
        /\ error # "PrimaryClick" =>
              submitted /\ stepClicks \in {<<"primary">>, <<"follow", "primary">>}
        /\ error = "PrimaryClick" =>
              ~submitted /\ stepClicks \in {<<>>, <<"follow">>}
C6_Witness ==
    /\ label = <<"Submit", "application">> /\ submitted
    /\ stepClicks = <<"follow", "primary">>

\* C7: once the validation scan has rejected a step, the attempt fills no
\* further step and clicks no further next/submit control; only the
\* rollback and the two re-raises remain.
C7_NoRetryAfterRejection ==
    [][error = "Validation" =>
         /\ step' = step /\ primaryClicks' = primaryClicks
         /\ stepClicks' = stepClicks /\ fillClicks' = fillClicks
         /\ stepInjections' = stepInjections
         /\ error' = "Validation"
         /\ pc' \in {"apply_except", "done"}]_vars
C7_Witness ==
    Done /\ error = "Validation" /\ step = 2 /\ primaryClicks = 2

NoneClickable(buttons) == \A c \in 1..Len(buttons) : ~buttons[c]

\* C8: when the strategies before Sj find nothing usable and Sj does, the
\* locator returns the element Sj found, and a call that finds its element
\* in the first round performs no page reload; the page is reloaded only
\* after a round in which no strategy matched.
C8_FoundWithoutReload ==
    /\ pc = "guard3" =>
         LET j == easy_apply_button.by IN
         /\ j \in 1..Len(search_methods)
         /\ Len(roundLog) = j
         /\ \A i \in 1..(j - 1) : NoneClickable(roundLog[i])
         /\ easy_apply_button.idx \in 1..Len(roundLog[j])
         /\ roundLog[j][easy_apply_button.idx]
         /\ attempt = 0 => reloads = 0
    /\ (pc \in {"loc_guard_end", "loc_refresh"} /\ attempt = 0) =>
         /\ Len(roundLog) = Len(search_methods)
         /\ \A i \in 1..Len(roundLog) : NoneClickable(roundLog[i])
    /\ reloads > 0 => attempt >= 1
C8_Witness ==
    /\ pc = "guard3" /\ easy_apply_button.by = 2 /\ attempt = 0
    /\ reloads = 0 /\ roundLog = << <<FALSE, FALSE>>, <<TRUE>> >>

\* C9: when no strategy matches, NotFound is raised after exactly 2 rounds
\* over the strategy list (with the one reload between them), not earlier
\* and not later.
C9_NotFoundAfterTwoRounds ==
    /\ error = "NotFound" =>
         /\ attempt = 2
         /\ evals = 2 * Len(search_methods)
         /\ Len(roundLog) = Len(search_methods)
         /\ \A i \in 1..Len(roundLog) : NoneClickable(roundLog[i])
         /\ errSite = "locator"
    /\ attempt = 2 => error = "NotFound"
C9_Witness ==
    Done /\ error = "NotFound" /\ attempt = 2 /\ evals = 6 /\ outcome = "raised"

\* C10: one locator call evaluates the strategy list in at most 2 rounds;
\* the page is reloaded exactly once, after the first round failed and
\* before the second starts, never after the second round; the scroll pass
\* has run before the strategies of the second round are evaluated.
C10_OneReloadBetweenRounds ==
    /\ [](/\ attempt <= 2 /\ reloads <= 1
          /\ evals <= 2 * Len(search_methods)
          /\ (pc = "loc_try" /\ attempt = 0) => reloads = 0 /\ scrolls = 1
          /\ (pc = "loc_try" /\ attempt = 1) => reloads = 1 /\ scrolls = 2
          /\ pc = "loc_try" => attempt < 2
          /\ attempt >= 1 => reloads = 1)
    /\ [][reloads' > reloads =>
            /\ pc = "loc_refresh" /\ attempt = 0 /\ attempt' = 1
            /\ Len(roundLog) = Len(search_methods)]_vars
C10_Witness ==
    pc = "loc_try" /\ attempt = 1 /\ reloads = 1 /\ scrolls = 2 /\ method = 3

\* C11: a redirect check raises RedirectLoop only when the location was the
\* interstitial at the call and after each of 3 re-navigations, never after
\* fewer; a check that leaves the location on the interstitial raises; no
\* call performs more than 3 re-navigations.
C11_RaisesAtThirdCheck ==
    /\ [](/\ guardNavs <= 3
          /\ error = "RedirectLoop" => guardNavs = 3 /\ url = "premium")
    /\ [][(error = "None" /\ error' = "RedirectLoop") =>
            /\ pc \in GuardSites
            /\ url = "premium" /\ url' = "premium"
            /\ guardNavs' = 3]_vars
    /\ [][(pc \in GuardSites /\ pc' # pc /\ url' = "premium") =>
            error' = "RedirectLoop" /\ guardNavs' = 3]_vars
C11_Witness ==
    Done /\ error = "RedirectLoop" /\ guardNavs = 3 /\ errSite = "guard2"

C19_EndToEnd ==
    (Done /\ wizard = "qqu" /\ submitted) =>
        /\ outcome = "returned"
        /\ resumes = 1
        /\ Len(answers_file.data) = Len(all_data)

\* C20: an attempt that raised to the caller after the apply trigger was
\* clicked has left the application modal closed.
C20_ModalClosedAfterFailure ==
    (Done /\ outcome = "raised" /\ errSite \in {"set_job", "next_or_submit"}) =>
        modal = "closed"

\* C21: the rollback raises nothing: whatever its controls do, the handler
\* goes on to re-raise the error that started it; the confirm control is
\* clicked only after the dismiss click and only when it is present; the
\* error the caller gets is never one of the rollback.
C21_RollbackNeverRaises ==
    /\ [][pc = "job_except" =>
            /\ pc' = "apply_except"
            /\ discarded'
            /\ error' = error /\ errSite' = errSite]_vars
    /\ [](/\ rollbackClicks \in {<<>>, <<"dismiss">>, <<"dismiss", "confirm">>}
          /\ rollbackClicks # <<>> => rollbackPage.dismiss = "ok"
          /\ rollbackClicks = <<"dismiss", "confirm">> =>
               rollbackPage.confirm = "ok")
    /\ []((outcome = "raised" /\ discarded) =>
            /\ error \notin {"None", "NoDismiss", "DismissClick", "ConfirmClick"}
            /\ errSite \notin {"none", "discard"})
C21_Witness ==
    /\ Done /\ outcome = "raised" /\ error = "Validation"
    /\ rollbackPage = [dismiss |-> "ok", confirm |-> "fails"]
    /\ rollbackClicks = <<"dismiss">>

\* C22: the trigger is clicked only after the navigation, the redirect
\* checks, the focus clear, the trigger acquisition and the capture of
\* description and recruiter link into the Job; set_job is called only after
\* the trigger click; no wizard step is processed before set_job.
C22_Sequencing ==
    /\ [][(modal = "closed" /\ modal' = "open") =>
            /\ "clicked" \notin milestones /\ "clicked" \in milestones'
            /\ {"navigated", "guard1", "blur", "guard2", "found", "guard3",
                "described"} \subseteq milestones
            /\ easy_apply_button # NoButton
            /\ job.description /\ job.recruiter_link
            /\ ~gptJob /\ step = 0]_vars
    /\ [][(~gptJob /\ gptJob') =>
            /\ "clicked" \in milestones /\ modal = "open"
            /\ step = 0]_vars
    /\ [][step' > step => gptJob /\ "set_job" \in milestones]_vars
    /\ []("blur" \in milestones => {"navigated", "guard1"} \subseteq milestones)
    /\ []("found" \in milestones => {"blur", "guard2"} \subseteq milestones)
    /\ []("described" \in milestones => {"found", "guard3"} \subseteq milestones)
C22_Witness ==
    /\ step = 1 /\ gptJob /\ modal = "open"
    /\ {"navigated", "blur", "found", "described", "clicked", "set_job", "step"}
         \subseteq milestones

\* C23: for every file input an upload step handles: classified resume, the
\* configured resume file is injected when there is one and a resume is
\* generated only when there is none; classified cover letter, a cover
\* letter is generated whether or not a resume file is configured.  The
\* generation requests, without the repeats after rate limiting, are one per
\* generating branch taken.
C23_UploadRouting ==
    /\ \A i \in 1..Len(stepUploads) :
         LET u == stepUploads[i] IN
         /\ (u.purpose = "resume" /\ resume_path) => u.took = "path"
         /\ (u.purpose = "resume" /\ ~resume_path) => u.took = "create_resume"
         /\ u.purpose = "cover" => u.took = "create_cover"
         /\ u.purpose = "other" => u.took = "none"
    /\ stepGens - Len(SelectSeq(stepRequests, LAMBDA q : Retries(q.outcome))) =
         Len(SelectSeq(stepUploads,
                       LAMBDA u : u.took \in {"create_resume", "create_cover"}))
    /\ stepRequests # <<>> => ~resume_path
    /\ Len(SelectSeq(stepInjections, LAMBDA x : x.src = "path")) =
         Len(SelectSeq(stepUploads, LAMBDA u : u.took = "path"))
    /\ \A j \in 1..Len(stepInjections) :
         /\ stepInjections[j].src = "path" => resume_path
         /\ stepInjections[j].src = "resume" => ~resume_path
C23_Witness ==
    /\ resume_path
    /\ Len(stepUploads) >= 1
    /\ stepUploads[1].purpose = "cover" /\ stepUploads[1].took = "create_cover"
    /\ stepGens >= 1

\* C24: every container fill_up processes is handled by exactly one handler:
\* the upload handler iff the container holds at least one file input, the
\* question handler otherwise; without an exception every container is
\* processed.
C24_StepClassification ==
    /\ Len(stepHandled) <= Len(stepElements)
    /\ \A i \in 1..Len(stepHandled) :
         /\ stepHandled[i] \in {"upload", "questions"}
         /\ stepHandled[i] = "upload" <=> stepElements[i] >= 1
         /\ stepHandled[i] = "questions" <=> stepElements[i] = 0
    /\ (pc = "next_or_submit" /\ fillErr = "None") =>
         Len(stepHandled) = Len(stepElements)
    /\ (\A i \in 1..Len(stepHandled) : stepHandled[i] = "questions") =>
         stepUploads = <<>> /\ stepInjections = <<>> /\ stepGens = 0
C24_Witness ==
    /\ stepElements = <<0, 1>>
    /\ stepHandled = <<"questions", "upload">>
    /\ Len(stepUploads) = 1

\* C25: every job attempt eventually returns or raises.
C25_Terminates == <>Done

\* C26: in every round the strategies are tried in list order, one after
\* the other; the element returned is the first visible and clickable
\* candidate, in enumeration order, of the first strategy that has one; a
\* strategy or candidate that fails only moves the search on.
C26_StrategyOrder ==
    /\ [](pc = "loc_try" =>
            /\ method \in 1..Len(search_methods)
            /\ Len(roundLog) = method - 1
            /\ \A m \in 1..Len(roundLog) : NoneClickable(roundLog[m]))
    /\ [](pc = "guard3" =>
            LET by == easy_apply_button.by
                idx == easy_apply_button.idx
            IN  /\ by = method /\ Len(roundLog) = by
                /\ \A m \in 1..(by - 1) : NoneClickable(roundLog[m])
                /\ idx \in 1..Len(roundLog[by])
                /\ roundLog[by][idx]
                /\ \A c \in 1..(idx - 1) : ~roundLog[by][c]
                /\ ~search_methods[by].find_elements => idx = 1)
    /\ [][(pc = "loc_try" /\ pc' = "loc_try") =>
            /\ method' = method + 1
            /\ easy_apply_button' = NoButton
            /\ error' = "None"]_vars
    /\ [][(pc = "loc_try" /\ pc' = "loc_guard_end") =>
            /\ method = Len(search_methods)
            /\ easy_apply_button' = NoButton
            /\ error' = "None"]_vars
C26_Witness ==
    /\ pc = "guard3" /\ attempt = 1
    /\ easy_apply_button = [by |-> 1, idx |-> 2]
    /\ roundLog = << <<FALSE, TRUE>> >>

\* C27: a generated file that fails the size or the extension check is never
\* sent to a file input, and pdf_path / cover_letter_path are set on the Job
\* only together with the upload of a file that passed both checks.
ArtifactPassed(a) ==
    /\ a.size <= 2097152
    /\ a.ext \in {".pdf", ".doc", ".docx"}
C27_NoInvalidUpload ==
    /\ [](\A j \in 1..Len(stepInjections) :
            LET x == stepInjections[j] IN
            x.src \in {"resume", "cover"} =>
                /\ x.art \in 1..Len(stepArtifacts)
                /\ stepArtifacts[x.art].input = x.input
                /\ stepArtifacts[x.art].kind = x.src
                /\ ArtifactPassed(stepArtifacts[x.art]))
    /\ [](\A i \in 1..Len(stepArtifacts) :
            ~ArtifactPassed(stepArtifacts[i]) =>
                /\ fillErr = "ArtifactInvalid" /\ artifactInvalid
                /\ i = Len(stepArtifacts)
                /\ \A j \in 1..Len(stepInjections) : stepInjections[j].art # i)
    /\ [][(~job.pdf_path /\ job.pdf_path') =>
            \E j \in 1..Len(stepInjections') :
                /\ stepInjections'[j].src = "resume"
                /\ ArtifactPassed(stepArtifacts'[stepInjections'[j].art])]_vars
    /\ [][(~job.cover_letter_path /\ job.cover_letter_path') =>
            \E j \in 1..Len(stepInjections') :
                /\ stepInjections'[j].src = "cover"
                /\ ArtifactPassed(stepArtifacts'[stepInjections'[j].art])]_vars
C27_Witness ==
    /\ Len(stepArtifacts) = 1 /\ stepArtifacts[1].size = 2097153
    /\ stepArtifacts[1].kind = "cover"
    /\ stepInjections = <<>> /\ ~job.cover_letter_path
    /\ fillErr = "ArtifactInvalid"

\* C29: a locator round scrolls and evaluates strategies only after the
\* redirect check made at the start of that round has returned off the
\* interstitial, each round has its own check, and the trigger is clicked only
\* after a further check, made after the trigger was found, has returned.
C29_GuardBeforeTrigger ==
    [][ /\ (evals' > evals) => (pc = "loc_try" /\ scrolls = attempt + 1)
        /\ (scrolls' > scrolls) => (pc = "loc_scroll" /\ scrolls = attempt)
        /\ (pc' = "loc_scroll") =>
             (pc = "loc_guard" /\ url' # "premium" /\ error' = "None")
        /\ ("guard3" \in milestones' /\ "guard3" \notin milestones) =>
             (pc = "guard3" /\ "found" \in milestones /\ url' # "premium")
        /\ (modal' = "open" /\ modal # "open") =>
             (pc = "click_trigger" /\ "guard3" \in milestones) ]_vars
C29_Witness ==
    /\ pc = "set_job" /\ modal = "open"
    /\ {"found", "guard3", "clicked"} \subseteq milestones

\* C30: when _next_or_submit has found the primary control and its click did
\* not fail, it returns True (Submitted, the step loop ends) iff the
\* lower-cased label contains "submit application" or "enviar solicitud";
\* for every other label it clicks the control once as a next action and
\* returns False (the loop takes another step) unless the validation scan
\* found an indicator and raised.
C30_SubmitIffPhrase ==
    [][ (pc = "next_or_submit" /\ label' # <<>> /\ error' # "PrimaryClick") =>
          LET button_text == Lower(label')
              phrase == \/ Contains(button_text, <<"submit", "application">>)
                        \/ Contains(button_text, <<"enviar", "solicitud">>)
          IN  /\ submitted' <=> phrase
              /\ phrase =>
                   /\ pc' = "job_return" /\ error' = "None"
                   /\ stepClicks'[Len(stepClicks')] = "primary"
                   /\ primaryClicks' = primaryClicks + 1
              /\ ~phrase =>
                   /\ stepClicks' = <<"primary">>
                   /\ primaryClicks' = primaryClicks + 1
                   /\ (indicators' = <<>>) => (pc' = "fill_up" /\ error' = "None")
                   /\ (indicators' # <<>>) =>
                        (pc' = "job_except" /\ error' = "Validation") ]_vars
C30_Witness ==
    /\ label = <<"Enviar", "solicitud">> /\ submitted /\ pc = "job_return"
    /\ step >= 2

\* C31: the validation scan runs only after a next click.  A click on a
\* control with a submit label makes the step Submitted without any scan,
\* whatever inline error indicators the page shows after it, and the attempt
\* then returns normally; indicators are found only by a step that clicked
\* the control as a next action.
C31_NoScanOnSubmit ==
    [][ LET button_text == Lower(label')
            phrase == \/ Contains(button_text, <<"submit", "application">>)
                      \/ Contains(button_text, <<"enviar", "solicitud">>)
        IN  /\ (pc = "next_or_submit" /\ phrase
                /\ primaryClicks' = primaryClicks + 1) =>
                  /\ indicators' = <<>> /\ errTexts' = <<>>
                  /\ submitted' /\ error' = "None" /\ pc' = "job_return"
            /\ (pc = "next_or_submit" /\ indicators' # <<>>) =>
                  /\ ~phrase /\ stepClicks' = <<"primary">>
                  /\ indicators' = pageErrors'
            /\ (submitted /\ pageErrors # <<>>) =>
                  /\ error' = "None" /\ outcome' # "raised"
                  /\ pc' \in {"job_return", "done"} ]_vars
C31_Witness ==
    /\ Done /\ submitted /\ outcome = "returned"
    /\ Len(pageErrors) = 2 /\ indicators = <<>>

\* C32: on a step whose label is a submit label, whether the follow-company
\* control is absent or its click fails, _unfollow_company raises nothing,
\* the primary control is still clicked (the only click of the step), and the
\* step becomes Submitted unless that primary click itself fails.
C32_UnfollowBestEffort ==
    [][ (pc = "next_or_submit" /\ followControl' \in {"absent", "fails"}) =>
          /\ error' \in {"None", "PrimaryClick"}
          /\ error' = "None" =>
               /\ stepClicks' = <<"primary">>
               /\ primaryClicks' = primaryClicks + 1
               /\ submitted' /\ pc' = "job_return"
          /\ error' = "PrimaryClick" => stepClicks' = <<>> ]_vars
C32_Witness ==
    /\ Done /\ followControl = "fails" /\ submitted /\ outcome = "returned"
    /\ stepClicks = <<"primary">>

\* C33: while one wizard step is processed (one call of fill_up), each file
\* input of the page receives at most one file injection, and at most one
\* artifact is generated for it, however many containers of the step hold a
\* file input.
C33_OncePerInput ==
    \A k \in 1..MaxInputs :
        /\ Len(SelectSeq(stepInjections, LAMBDA x : x.input = k)) <= 1
        /\ Len(SelectSeq(stepArtifacts, LAMBDA a : a.input = k)) <= 1

\* C35: a resume request that ends with HTTP status 429, or with an error
\* whose text contains 'RateLimitError', is followed by another request for
\* the same file input; a request that ends with any other error, from the
\* generator or from writing the file, is the last one of the fill_up call,
\* its error leaves _create_and_upload_resume, and nothing is uploaded for it.
C35_RetryOnlyOnRateLimit ==
    \A i \in 1..Len(stepRequests) :
        LET o == stepRequests[i].outcome
            rate_limited == \/ IsHTTPStatusError(o) /\ status_code(o) = 429
                            \/ HasRateLimitText(o)
            written == Len(SelectSeq(SubSeq(stepRequests, 1, i),
                                     LAMBDA q : q.outcome = "ok"))
        IN  /\ rate_limited =>
                 /\ i < Len(stepRequests)
                 /\ stepRequests[i + 1].input = stepRequests[i].input
            /\ (~rate_limited /\ o # "ok") =>
                 /\ i = Len(stepRequests)
                 /\ fillErr = "Generator"
                 /\ Len(SelectSeq(stepInjections,
                                  LAMBDA x : x.src = "resume")) <= written

(***************************************************************************)
(* The upload check on its own: lines 426-438 (resume) and 503-513 (cover  *)
(* letter) applied to a file of any size and extension.                    *)
(***************************************************************************)
\* os.path.getsize results around the limit
FileSizes ==
    {0, 1, max_file_size - 1, max_file_size, max_file_size + 1,
     max_file_size + 2, 2 * max_file_size}

\* os.path.splitext results, in several spellings
FileExtensions ==
    {".pdf", ".doc", ".docx", ".PDF", ".Pdf", ".DOC", ".DOCX", ".txt", ".exe",
     ".pdfx", ""}

ArtifactInit ==
    /\ pc = "artifact"
    /\ resume_path = FALSE
    /\ AtRest
    /\ file_size \in FileSizes
    /\ file_extension \in FileExtensions
    /\ verdict = "unchecked"
    /\ SanIdle
    /\ StoreIdle
    /\ GuardIdle

\* Lines 426-438 of _create_and_upload_resume
validate_resume ==
    /\ pc = "artifact"
    /\ pc' = "resume_checked"
    /\ verdict' = IF ArtifactInvalid(file_size, file_extension)
                  THEN "ArtifactInvalid" ELSE "accepted"
    /\ UNCHANGED <<WorkVars, GuardVars, file_size, file_extension, SanVars, StoreVars>>

\* Lines 503-513 of _create_and_upload_cover_letter
validate_cover_letter ==
    /\ pc = "artifact"
    /\ pc' = "cover_checked"
    /\ verdict' = IF ArtifactInvalid(file_size, file_extension)
                  THEN "ArtifactInvalid" ELSE "accepted"
    /\ UNCHANGED <<WorkVars, GuardVars, file_size, file_extension, SanVars, StoreVars>>

ArtifactNext == validate_resume \/ validate_cover_letter

ArtifactSpec == ArtifactInit /\ [][ArtifactNext]_vars

Chars == {"A", "a", "sp", "comma", "quote", "bslash", "nl", "nul", "nel"}

MaxLen == 3

Texts_ == UNION {[1..n -> Chars] : n \in 0..MaxLen}

\* str.isspace
IsSpace(c) == c \in {"sp", "nl", "nel"}

\* the class [\x00-\x1F\x7F] of line 643
InControlClass(c) == c \in {"nl", "nul"}

\* Unicode category Cc
IsControl(c) == c \in {"nl", "nul", "nel"}

IsUpper(c) == c = "A"

\* str.lower
LowerChars(s) == [i \in 1..Len(s) |-> IF s[i] = "A" THEN "a" ELSE s[i]]

RECURSIVE LStrip(_)
LStrip(s) ==
    IF s # <<>> /\ IsSpace(Head(s)) THEN LStrip(Tail(s)) ELSE s

RECURSIVE RStrip(_)
RStrip(s) ==
    IF s # <<>> /\ IsSpace(s[Len(s)])
    THEN RStrip(SubSeq(s, 1, Len(s) - 1)) ELSE s

\* str.strip
Strip(s) == RStrip(LStrip(s))

\* str.replace(c, '')
Remove(s, c) == SelectSeq(s, LAMBDA x : x # c)

\* re.sub(r'[\x00-\x1F\x7F]', '', s)
RemoveControls(s) == SelectSeq(s, LAMBDA x : ~InControlClass(x))

\* str.replace('\n', ' ')
NewlineToSpace(s) == [i \in 1..Len(s) |-> IF s[i] = "nl" THEN "sp" ELSE s[i]]

\* str.rstrip(',')
RECURSIVE RStripComma(_)
RStripComma(s) ==
    IF s # <<>> /\ s[Len(s)] = "comma"
    THEN RStripComma(SubSeq(s, 1, Len(s) - 1)) ELSE s

\* Lines 642-644, in the order the calls are chained.
sanitize_text(t) ==
    LET lowered == LowerChars(t)
        stripped == Strip(lowered)
        unquoted == Remove(Remove(stripped, "quote"), "bslash")
        cleaned == RemoveControls(unquoted)
    IN  RStripComma(NewlineToSpace(cleaned))

MaxPasses == 2

SanitizeInit ==
    /\ pc = "sanitize"
    /\ resume_path = FALSE
    /\ AtRest
    /\ AuxIdle
    /\ raw \in Texts_
    /\ sanitized_text = <<>>
    /\ passes = 0
    /\ StoreIdle
    /\ GuardIdle

\* One call of _sanitize_text: on the raw text first, then on its own result.
sanitize ==
    /\ pc = "sanitize"
    /\ passes < MaxPasses
    /\ sanitized_text' = sanitize_text(IF passes = 0 THEN raw ELSE sanitized_text)
    /\ passes' = passes + 1
    /\ UNCHANGED <<pc, WorkVars, GuardVars, ArtVars, raw, StoreVars>>

SanitizeSpec == SanitizeInit /\ [][sanitize]_vars

\* C17: _sanitize_text is idempotent: applying it to its own result returns
\* that result unchanged.
C17_Idempotent ==
    [][(pc = "sanitize" /\ passes >= 1 /\ passes' = passes + 1) =>
          sanitized_text' = sanitized_text]_vars

\* C18: whatever the input, the text _sanitize_text returns has no upper-case
\* letter, no control character, no double quote, no backslash, and does not
\* end with a comma.
C18_NormalForm ==
    (pc = "sanitize" /\ passes >= 1) =>
        /\ \A i \in 1..Len(sanitized_text) :
             /\ ~IsUpper(sanitized_text[i])
             /\ ~IsControl(sanitized_text[i])
             /\ sanitized_text[i] \notin {"quote", "bslash"}
        /\ sanitized_text = <<>> \/ sanitized_text[Len(sanitized_text)] # "comma"

(***************************************************************************)
(* The answer store: answers.json, _load_questions_from_json (lines 59-83) *)
(* and _save_questions_to_json (lines 605-636).                            *)
(***************************************************************************)
MaxSaves == 2

\* Question texts as the form shows them
Questions ==
    {<<"a">>, <<"A">>, <<"a", "comma">>, <<"quote", "sp", "a">>, <<"a", "a">>}

Answers == {"yes", "no"}

\* question_data: the dict handed to the save
Records == [question : Questions, answer : Answers]

\* What answers.json may hold before the first save: no file, text that is
\* not JSON, a JSON value that is not a list, or the empty list.
EmptyFiles ==
    {[kind |-> k, data |-> <<>>] : k \in {"missing", "garbage", "value", "list"}}

\* The file written without reading what it holds
ReadAnswers_Fresh(f) ==
    [raises |-> f.kind = "value", data |-> <<>>]

\* The read without the JSONDecodeError handlers of lines 72 and 621
ReadAnswers_M(f) ==
    [raises |-> f.kind \in {"value", "garbage"},
     data |-> IF f.kind = "list" THEN f.data ELSE <<>>]

\* Lines 66-72 and 615-624: json.load of the file.  A missing file and a
\* JSONDecodeError give the empty list; a value that is not a list raises
\* ValueError, which the outer handler re-raises as Exception.
ReadAnswers(f) ==
    [raises |-> f.kind = "value",
     data |-> IF f.kind = "list" THEN f.data ELSE <<>>]

\* The record put in front of the stored ones
AppendRecord_M(data, record) == <<record>> \o data

\* Line 626: data.append(question_data)
AppendRecord(data, record) == Append(data, record)

StoreInit ==
    /\ pc = "store"
    /\ resume_path = FALSE
    /\ AtRest
    /\ AuxIdle
    /\ SanIdle
    /\ GuardIdle
    /\ answers_file \in EmptyFiles
    /\ all_data = <<>> /\ storeErr = "None" /\ saved = <<>>

\* Lines 605-636.  Line 611 rewrites the question of the caller's dict in
\* place, before the file is read; saved keeps the dict as the call left it.
save_questions_to_json ==
    /\ pc = "store"
    /\ Len(saved) < MaxSaves
    /\ \E question_data \in Records :
         LET record == [question_data EXCEPT
                          !.question = sanitize_text(question_data.question)]
             read == ReadAnswers(answers_file)
         IN  /\ saved' = Append(saved, record)
             /\ IF read.raises
                THEN /\ storeErr' = "Exception"
                     /\ UNCHANGED answers_file
                ELSE /\ storeErr' = "None"
                     /\ answers_file' =
                          [kind |-> "list",
                           data |-> AppendRecord(read.data, record)]
    /\ UNCHANGED <<pc, WorkVars, GuardVars, ArtVars, SanVars, all_data>>

\* Lines 59-83
load_questions_from_json ==
    /\ pc = "store"
    /\ pc' = "loaded"
    /\ LET read == ReadAnswers(answers_file)
       IN  IF read.raises
           THEN storeErr' = "Exception" /\ UNCHANGED all_data
           ELSE storeErr' = "None" /\ all_data' = read.data
    /\ UNCHANGED <<WorkVars, GuardVars, ArtVars, SanVars, answers_file, saved>>

StoreNext == save_questions_to_json \/ load_questions_from_json

StoreSpec == StoreInit /\ [][StoreNext]_vars

C16_OneRecordPerQuestion ==
    answers_file.kind = "list" =>
        \A i, j \in 1..Len(answers_file.data) :
            answers_file.data[i].question = answers_file.data[j].question
                => i = j

(***************************************************************************)
(* check_for_premium_redirect on its own (lines 85-102): one call, from    *)
(* any location, with any location after each driver.get.                  *)
(***************************************************************************)
\* Classes of driver.current_url; only "premium" contains
\* "linkedin.com/premium".
GuardUrls == {"job", "premium", "feed", "login"}

GuardInit ==
    /\ pc = "guard"
    /\ resume_path = FALSE
    /\ AtRest
    /\ AuxIdle
    /\ SanIdle
    /\ StoreIdle
    /\ guardStart \in GuardUrls
    /\ guardNexts \in [1..max_attempts -> GuardUrls]
    /\ guardResult = [current_url |-> guardStart, attempts |-> 0,
                      raised |-> FALSE]

\* Lines 90-102
guard_call ==
    /\ pc = "guard"
    /\ pc' = "guard_done"
    /\ LET r == RedirectLoop(guardStart, 0, guardNexts)
       IN  guardResult' = [current_url |-> r.current_url,
                           attempts |-> r.attempts,
                           raised |-> RedirectRaises(r)]
    /\ UNCHANGED <<WorkVars, ArtVars, SanVars, StoreVars, guardStart,
                   guardNexts>>

GuardSpec == GuardInit /\ [][guard_call]_vars

\* C28: called at a location that is not the interstitial, the check
\* navigates nowhere and returns; called at the interstitial, which the k-th
\* navigation to the job link leaves (1 <= k <= 3), it returns after exactly
\* k navigations and raises nothing.
C28_GuardReturns ==
    pc = "guard_done" =>
        /\ guardStart # "premium" =>
             /\ guardResult.attempts = 0 /\ ~guardResult.raised
             /\ guardResult.current_url = guardStart
        /\ \A k \in 1..3 :
             ( /\ guardStart = "premium"
               /\ \A i \in 1..(k - 1) : guardNexts[i] = "premium"
               /\ guardNexts[k] # "premium" ) =>
                 /\ guardResult.attempts = k /\ ~guardResult.raised
                 /\ guardResult.current_url = guardNexts[k]
C28_Witness ==
    /\ pc = "guard_done" /\ guardStart = "premium"
    /\ guardNexts = <<"premium", "premium", "feed">>
    /\ guardResult = [current_url |-> "feed", attempts |-> 3, raised |-> FALSE]

(***************************************************************************)
(* The answer store started on a log that already holds records            *)
(***************************************************************************)
MaxStored == 2

\* What answers.json may hold when a run starts: any of EmptyFiles, or a
\* list of records written earlier (their questions as they were written).
StoredFiles ==
    EmptyFiles \cup
    {[kind |-> "list", data |-> d] : d \in SeqsUpTo(Records, MaxStored)}

AppendInit ==
    /\ pc = "store"
    /\ resume_path = FALSE
    /\ AtRest
    /\ AuxIdle
    /\ SanIdle
    /\ GuardIdle
    /\ answers_file \in StoredFiles
    /\ all_data = <<>> /\ storeErr = "None" /\ saved = <<>>

AppendSpec == AppendInit /\ [][StoreNext]_vars

\* C34: every successful save leaves the records the log held in place,
\* unchanged and in the same order, and adds exactly one record, the saved
\* one, at the end, whatever the log held before (nothing, when the file was
\* missing or not JSON); a save that raises leaves the file as it was.
C34_AppendOnly ==
    [][ (pc = "store" /\ pc' = "store") =>
          LET held == IF answers_file.kind = "list"
                      THEN answers_file.data ELSE <<>>
          IN  /\ storeErr' = "None" =>
                   /\ answers_file'.kind = "list"
                   /\ Len(answers_file'.data) = Len(held) + 1
                   /\ \A i \in 1..Len(held) :
                        answers_file'.data[i] = held[i]
                   /\ answers_file'.data[Len(held) + 1] = saved'[Len(saved')]
              /\ storeErr' # "None" => answers_file' = answers_file ]_vars
C34_Witness ==
    /\ pc = "store" /\ Len(saved) = 2 /\ storeErr = "None"
    /\ Len(answers_file.data) = 4
    /\ answers_file.data[1] # answers_file.data[2]
    /\ answers_file.data[1].question = <<"quote", "sp", "a">>
    /\ answers_file.data[3] = saved[1] /\ answers_file.data[4] = saved[2]

====
